---- MODULE Spec2Model ----
(***************************************************************************)
(* Model of the mail-tracker backend: the GET /open handler of             *)
(* src/index.js and the open-logging task logOpenByCid of src/google.js,   *)
(* working on a remote sheet of tracking rows.                             *)
(*                                                                         *)
(* Strings are sequences of character codes (Unicode code points), so that *)
(* decoding, splitting, trimming and substring search are computed as the  *)
(* code computes them.  A few values that are not strings are tagged       *)
(* sequences with a negative first element (they equal no string).         *)
(***************************************************************************)
EXTENDS Integers, Sequences, FiniteSets, TLC

\* ------------------------------------------------------------------ bounds
\* number of GET /open requests in a behaviour
MaxRequests == 2
\* number of seconds the wall clock may advance while requests arrive
MaxTicks == 1

\* ---------------------------------------------------------- string values
\* JavaScript undefined (a missing query parameter, a missing array element)
Undefined == <<-1>>
\* a query parameter that is not a string (?cid=a&cid=b gives an array)
ArrayValue == <<-2>>
\* new Date().toLocaleString('en-GB', ...) of wall-clock second t
LocaleString(t) == <<-3, t>>
\* Date.prototype.toISOString() of epoch millisecond n
ISOString(n) == <<-4, n>>

\* "Email Tracking Log"
SHEET_NAME == <<69, 109, 97, 105, 108, 32, 84, 114, 97, 99, 107, 105, 110, 103, 32, 76, 111, 103>>

IsString(s) == s = <<>> \/ s[1] >= 0

\* JavaScript truthiness of a string-or-undefined value
Truthy(s) == s # Undefined /\ s # <<>>

\* String.prototype.includes
Includes(s, sub) ==
  \E i \in 1..(Len(s) - Len(sub) + 1) : SubSeq(s, i, i + Len(sub) - 1) = sub

\* String.prototype.replace(/a/g, b) for single characters a and b
ReplaceAll(s, a, b) == [i \in 1..Len(s) |-> IF s[i] = a THEN b ELSE s[i]]

\* white space removed by String.prototype.trim (space, tab, LF, CR)
IsSpace(c) == c \in {32, 9, 10, 13}

RECURSIVE TrimLeft(_)
TrimLeft(s) == IF s # <<>> /\ IsSpace(s[1]) THEN TrimLeft(Tail(s)) ELSE s

RECURSIVE TrimRight(_)
TrimRight(s) ==
  IF s # <<>> /\ IsSpace(s[Len(s)]) THEN TrimRight(SubSeq(s, 1, Len(s) - 1)) ELSE s

Trim(s) == TrimRight(TrimLeft(s))

\* String.prototype.toLowerCase on ASCII letters
ToLowerCase(s) ==
  [i \in 1..Len(s) |-> IF s[i] >= 65 /\ s[i] <= 90 THEN s[i] + 32 ELSE s[i]]

\* String.prototype.split(sep) for a non-empty separator
RECURSIVE Split(_, _)
Split(s, sep) ==
  LET hits == {i \in 1..(Len(s) - Len(sep) + 1) : SubSeq(s, i, i + Len(sep) - 1) = sep}
  IN  IF hits = {} THEN <<s>>
      ELSE LET i == CHOOSE h \in hits : \A g \in hits : h <= g
           IN  <<SubSeq(s, 1, i - 1)>> \o Split(SubSeq(s, i + Len(sep), Len(s)), sep)

\* ------------------------------------------------------------ the decoder
\* value of a base64 character, -1 for a character outside the alphabet
\* (the runtime's table also accepts the URL-safe '-' and '_')
Unbase64(c) ==
  IF c >= 65 /\ c <= 90 THEN c - 65
  ELSE IF c >= 97 /\ c <= 122 THEN c - 71
  ELSE IF c >= 48 /\ c <= 57 THEN c + 4
  ELSE IF c = 43 \/ c = 45 THEN 62
  ELSE IF c = 47 \/ c = 95 THEN 63
  ELSE -1

\* the part of s before its first '='
RECURSIVE UpToPad(_)
UpToPad(s) ==
  IF s = <<>> \/ s[1] = 61 THEN <<>> ELSE <<s[1]>> \o UpToPad(Tail(s))

\* a decoder that decodes whole groups of four characters only
BufferFromBase64WholeGroups(s) ==
  LET legal == SelectSeq(UpToPad(s), LAMBDA c : Unbase64(c) >= 0)
      q     == [i \in 1..Len(legal) |-> Unbase64(legal[i])]
      n     == (Len(q) \div 4) * 3
      byte(k) ==
        LET g == (k - 1) \div 3
            p == (k - 1) % 3
            a == q[4 * g + p + 1]
            b == q[4 * g + p + 2]
        IN  IF p = 0 THEN a * 4 + b \div 16
            ELSE IF p = 1 THEN (a % 16) * 16 + b \div 4
            ELSE (a % 4) * 64 + b
  IN  [k \in 1..n |-> byte(k)]

\* Buffer.from(str, 'base64'): decoding stops at the first '=', characters
\* outside the alphabet are skipped, a dangling single sextet is dropped;
\* it never throws on a string
BufferFromBase64(s) ==
  LET legal == SelectSeq(UpToPad(s), LAMBDA c : Unbase64(c) >= 0)
      q     == [i \in 1..Len(legal) |-> Unbase64(legal[i])]
      n     == (Len(q) * 3) \div 4
      byte(k) ==
        LET g == (k - 1) \div 3
            p == (k - 1) % 3
            a == q[4 * g + p + 1]
            b == q[4 * g + p + 2]
        IN  IF p = 0 THEN a * 4 + b \div 16
            ELSE IF p = 1 THEN (a % 16) * 16 + b \div 4
            ELSE (a % 4) * 64 + b
  IN  [k \in 1..n |-> byte(k)]

\* buffer.toString('utf-8') on bytes: ASCII bytes are themselves; a byte
\* outside ASCII is rendered as U+FFFD (multi-byte sequences are not
\* assembled: the identifiers of this model are ASCII)
Utf8ToString(bytes) ==
  [i \in 1..Len(bytes) |-> IF bytes[i] < 128 THEN bytes[i] ELSE 65533]

\* '=' appended while the length is not a multiple of 4
PadTo4(s) == s \o [i \in 1..((4 - (Len(s) % 4)) % 4) |-> 61]

\* decodeBase64UrlSafe of a string
decodeBase64UrlSafe(str) ==
  Utf8ToString(BufferFromBase64(PadTo4(ReplaceAll(ReplaceAll(str, 45, 43), 95, 47))))

\* decodeBase64UrlSafe throws when str.replace is not a function
DecodeThrows(str) == ~IsString(str)

\* element i of a JavaScript array, undefined beyond its length
At(parts, i) == IF i <= Len(parts) THEN parts[i] ELSE Undefined

\* parseFields that splits on '|' whatever the string holds
parseFieldsSingleBar(decoded) ==
  LET parts == Split(decoded, <<124>>)
  IN  [company |-> At(parts, 1), email |-> At(parts, 2), subject |-> At(parts, 3),
       type |-> At(parts, 4), sentTime |-> At(parts, 5)]

\* const [company, email, subject, type, sentTime] = parts, where parts is
\* the decoded string split on '||' when it holds '||' and on '|' otherwise
parseFields(decoded) ==
  LET parts == IF Includes(decoded, <<124, 124>>)
                 THEN Split(decoded, <<124, 124>>)
                 ELSE Split(decoded, <<124>>)
  IN  [company |-> At(parts, 1), email |-> At(parts, 2), subject |-> At(parts, 3),
       type |-> At(parts, 4), sentTime |-> At(parts, 5)]

\* "vinodk@tatsa.tech", "test@", "example.com"
SelfOpenMarks ==
  { <<118, 105, 110, 111, 100, 107, 64, 116, 97, 116, 115, 97, 46, 116, 101, 99, 104>>,
    <<116, 101, 115, 116, 64>>,
    <<101, 120, 97, 109, 112, 108, 101, 46, 99, 111, 109>> }

\* isSelfOpen that knows the sender's address only
isSelfOpenSenderOnly(email) ==
  Truthy(email) /\ Includes(email,
    <<118, 105, 110, 111, 100, 107, 64, 116, 97, 116, 115, 97, 46, 116, 101, 99, 104>>)

\* the guard of "Skipping self-open"
isSelfOpen(email) ==
  Truthy(email) /\ \E m \in SelfOpenMarks : Includes(email, m)

\* ---------------------------------------------------------------- numbers
IsDigit(c) == c >= 48 /\ c <= 57

RECURSIVE DigitsValue(_, _)
DigitsValue(s, acc) ==
  IF s = <<>> \/ ~IsDigit(s[1]) THEN acc
  ELSE DigitsValue(Tail(s), acc * 10 + (s[1] - 48))

\* parseInt(s): leading white space skipped, an optional sign, then the
\* longest run of digits; NaN when there is no digit (or s is undefined)
parseInt(s) ==
  IF ~IsString(s) THEN [nan |-> TRUE, val |-> 0]
  ELSE LET t    == TrimLeft(s)
           neg  == t # <<>> /\ t[1] = 45
           body == IF t # <<>> /\ t[1] \in {43, 45} THEN Tail(t) ELSE t
       IN  IF body = <<>> \/ ~IsDigit(body[1]) THEN [nan |-> TRUE, val |-> 0]
           ELSE [nan |-> FALSE,
                 val |-> IF neg THEN 0 - DigitsValue(body, 0) ELSE DigitsValue(body, 0)]

\* decimal rendering of an integer, as a cell stores a number
RECURSIVE NatToString(_)
NatToString(n) ==
  IF n < 10 THEN <<48 + n>> ELSE NatToString(n \div 10) \o <<48 + (n % 10)>>

NumberToString(n) == IF n < 0 THEN <<45>> \o NatToString(0 - n) ELSE NatToString(n)

\* ------------------------------------------------------------------- rows
\* Seen 1 .. Seen 10
NumSeen == 10

\* a cell written as undefined is stored empty
Cell(v) == IF v = Undefined THEN <<>> ELSE v

\* addedRow that leaves the CID cell out
addedRowNoCid(f, sentTimeStr, cid) ==
  [cid |-> <<>>, company |-> Cell(f.company), email |-> Cell(f.email),
   subject |-> Cell(f.subject), type |-> Cell(f.type), sentTime |-> sentTimeStr,
   totalOpens |-> <<48>>, lastSeen |-> <<>>, seen |-> [i \in 1..NumSeen |-> <<>>],
   pdfViews |-> <<48>>, lastPdfView |-> <<>>, calClicks |-> <<48>>, lastCalClick |-> <<>>,
   webClicks |-> <<48>>, lastWebClick |-> <<>>,
   portfolioClicks |-> <<48>>, lastPortfolio |-> <<>>]

\* the row that sheet.addRow stores in insertTrackingRow
addedRow(f, sentTimeStr, cid) ==
  [cid |-> cid, company |-> Cell(f.company), email |-> Cell(f.email),
   subject |-> Cell(f.subject), type |-> Cell(f.type), sentTime |-> sentTimeStr,
   totalOpens |-> <<48>>, lastSeen |-> <<>>, seen |-> [i \in 1..NumSeen |-> <<>>],
   pdfViews |-> <<48>>, lastPdfView |-> <<>>, calClicks |-> <<48>>, lastCalClick |-> <<>>,
   webClicks |-> <<48>>, lastWebClick |-> <<>>,
   portfolioClicks |-> <<48>>, lastPortfolio |-> <<>>]

\* writeSeen without the i === 10 overwrite: a full history stays as it is
RECURSIVE writeSeenNoOverwrite(_, _, _)
writeSeenNoOverwrite(seen, i, timestamp) ==
  IF ~Truthy(seen[i]) THEN [seen EXCEPT ![i] = timestamp]
  ELSE IF i = NumSeen THEN seen
  ELSE writeSeenNoOverwrite(seen, i + 1, timestamp)

\* the for loop of updateOpenStats, from slot i on
RECURSIVE writeSeen(_, _, _)
writeSeen(seen, i, timestamp) ==
  IF ~Truthy(seen[i]) THEN [seen EXCEPT ![i] = timestamp]
  ELSE IF i = NumSeen THEN [seen EXCEPT ![i] = timestamp]
  ELSE writeSeen(seen, i + 1, timestamp)

\* priorOpens that forgets the stored count
priorOpensZero(cell) == 0

\* parseInt(row['Total Opens'] || '0') || 0
priorOpens(cell) ==
  LET p == parseInt(IF Truthy(cell) THEN cell ELSE <<48>>)
  IN  IF p.nan THEN 0 ELSE p.val

\* updateOpenStats that also stamps the PDF view time
updateOpenStatsAndPdf(row, timestamp) ==
  [row EXCEPT !.totalOpens = NumberToString(priorOpens(row.totalOpens) + 1),
              !.lastSeen = timestamp,
              !.lastPdfView = timestamp,
              !.seen = writeSeen(row.seen, 1, timestamp)]

\* updateOpenStats(row, timestamp): the row object after the call
updateOpenStats(row, timestamp) ==
  [row EXCEPT !.totalOpens = NumberToString(priorOpens(row.totalOpens) + 1),
              !.lastSeen = timestamp,
              !.seen = writeSeen(row.seen, 1, timestamp)]

\* a search that takes the last row of the CID
findByCidLast(rows, trimmedCid) ==
  LET hits == {i \in 1..Len(rows) : Trim(rows[i].cid) = trimmedCid}
  IN  IF hits = {} THEN 0 ELSE CHOOSE h \in hits : \A g \in hits : h >= g

\* rows.find(r => (r['CID'] || '').trim() === trimmedCid): the index of the
\* first such row, 0 when there is none
findByCid(rows, trimmedCid) ==
  LET hits == {i \in 1..Len(rows) : Trim(rows[i].cid) = trimmedCid}
  IN  IF hits = {} THEN 0 ELSE CHOOSE h \in hits : \A g \in hits : h <= g

\* ------------------------------------------------------------ environment
RequiredColumns == {"CID", "Total Opens", "Last Seen Time"}

AllColumns ==
  RequiredColumns \cup
  {"Company Name", "Email ID", "Subject", "Email Type", "Sent Time",
   "Seen 1", "Seen 2", "Seen 3", "Seen 4", "Seen 5",
   "Seen 6", "Seen 7", "Seen 8", "Seen 9", "Seen 10",
   "Total PDF Views", "Last PDF View Time", "Total Cal Clicks", "Last Cal Click Time",
   "Total Web Clicks", "Last Web Click Time",
   "Total Portfolio Link Clicks", "Last Portfolio Link Time"}

\* getServiceAccountCreds() returns a credential object (not null)
credsOk(e) == e.creds = "ok"

\* getSheetId() returns a non-empty id
sheetIdOk(e) == e.sheetId = "ok"

\* !creds || !SHEET_ID is false
configOk(e) == credsOk(e) /\ sheetIdOk(e)

\* doc.sheetsByTitle[SHEET_NAME], else a title equal to it ignoring case
sheetFound(e) ==
  \/ SHEET_NAME \in e.titles
  \/ \E title \in e.titles : ToLowerCase(title) = ToLowerCase(SHEET_NAME)

\* missingColumns that requires the CID column only
missingColumnsCidOnly(e) == {col \in {"CID"} : col \notin e.header}

\* requiredColumns.filter(col => !sheet.headerValues.includes(col))
missingColumns(e) == {col \in RequiredColumns : col \notin e.header}

\* new Date(parseInt(sentTime)) is an Invalid Date, on which toISOString
\* throws a RangeError (the sentTime values of the model are far inside
\* the range of Date)
invalidDate(sentTime) == parseInt(sentTime).nan

\* sentTime.toISOString() of new Date(parseInt(sentTime))
sentTimeStr(sentTime) == ISOString(parseInt(sentTime).val)

\* ----------------------------------------------------------------- inputs
\* base64 of "Acme|a@b.com|Subj|Promo|170000":
\* QWNtZXxhQGIuY29tfFN1Ymp8UHJvbW98MTcwMDAw
CID_ACME ==
  <<81, 87, 78, 116, 90, 88, 120, 104, 81, 71, 73, 117, 89, 50, 57, 116, 102, 70, 78, 49,
    89, 109, 112, 56, 85, 72, 74, 118, 98, 87, 57, 56, 77, 84, 99, 119, 77, 68, 65, 119>>

\* base64 of "Acme||a@b.com||Subj||Promo||170000":
\* QWNtZXx8YUBiLmNvbXx8U3Vianx8UHJvbW98fDE3MDAwMA==
CID_ACME_DOUBLE ==
  <<81, 87, 78, 116, 90, 88, 120, 56, 89, 85, 66, 105, 76, 109, 78, 118, 98, 88, 120, 56,
    85, 51, 86, 105, 97, 110, 120, 56, 85, 72, 74, 118, 98, 87, 57, 56, 102, 68, 69, 51,
    77, 68, 65, 119, 77, 65, 61, 61>>

\* base64 of "Acme|test@example.com|Subj|Promo|170000":
\* QWNtZXx0ZXN0QGV4YW1wbGUuY29tfFN1Ymp8UHJvbW98MTcwMDAw
CID_SELF ==
  <<81, 87, 78, 116, 90, 88, 120, 48, 90, 88, 78, 48, 81, 71, 86, 52, 89, 87, 49, 119,
    98, 71, 85, 117, 89, 50, 57, 116, 102, 70, 78, 49, 89, 109, 112, 56, 85, 72, 74, 118,
    98, 87, 57, 56, 77, 84, 99, 119, 77, 68, 65, 119>>

\* CID_ACME with one '=' appended: a length that is no multiple of 4
CID_BADPAD == CID_ACME \o <<61>>

\* CID_ACME with '!' and '*' put in: characters outside the base64 alphabets
CID_BADCHAR == SubSeq(CID_ACME, 1, 4) \o <<33>> \o SubSeq(CID_ACME, 5, 40) \o <<42>>

\* "abc": decodes to two bytes that hold no delimiter
CID_PLAIN == <<97, 98, 99>>

\* the values of the cid query parameter the requests draw from
CidInputs ==
  {Undefined, <<>>, ArrayValue,
   CID_ACME, CID_ACME_DOUBLE, CID_SELF, CID_BADPAD, CID_PLAIN}

\* the fields of the identifier "Acme|a@b.com|Subj|Promo|170000"
AcmeFields ==
  [company |-> <<65, 99, 109, 101>>, email |-> <<97, 64, 98, 46, 99, 111, 109>>,
   subject |-> <<83, 117, 98, 106>>, type |-> <<80, 114, 111, 109, 111>>,
   sentTime |-> <<49, 55, 48, 48, 48, 48>>]

\* the fields of the identifier "Acme|test@example.com|Subj|Promo|170000"
SelfFields ==
  [AcmeFields EXCEPT !.email =
     <<116, 101, 115, 116, 64, 101, 120, 97, 109, 112, 108, 101, 46, 99, 111, 109>>]

\* second of the wall clock at which a behaviour starts
StartTime == 100

\* a row inserted for (f, cid) and then opened k times, one second apart,
\* the last time at second `last`; its Total Opens cell holds `total`
OpenedRow(f, cid, k, last, total) ==
  [addedRow(f, ISOString(170000), cid) EXCEPT
     !.totalOpens = total,
     !.lastSeen = IF k = 0 THEN <<>> ELSE LocaleString(last),
     !.seen = [i \in 1..NumSeen |->
                 IF i > k THEN <<>>
                 ELSE IF i = NumSeen THEN LocaleString(last)
                 ELSE LocaleString(last - (k - i))]]

\* the row of a self-addressed mail, and a row opened 3 times, last 3 s
\* before the start
TwoRowSheet ==
  <<OpenedRow(SelfFields, CID_SELF, 0, 0, <<48>>),
    OpenedRow(AcmeFields, CID_ACME, 3, StartTime - 3, <<51>>)>>

\* the sheets a behaviour starts from: empty; a row opened 3 times, last
\* 7 s before the start; a row opened 9 and 12 times; a row whose Total
\* Opens cell was emptied or overwritten with "abc" or "12x" by hand; a row
\* whose CID cell ends with a space; and a sheet
\* that holds the fresh row of a self-addressed mail and a row opened 3
\* times, last 3 s before the start
InitSheets ==
  { <<>>,
    <<OpenedRow(AcmeFields, CID_ACME, 3, StartTime - 7, <<51>>)>>,
    <<OpenedRow(AcmeFields, CID_ACME, 9, StartTime - 7, <<57>>)>>,
    <<OpenedRow(AcmeFields, CID_ACME, 12, StartTime - 7, <<49, 50>>)>>,
    <<OpenedRow(AcmeFields, CID_ACME, 0, 0, <<>>)>>,
    <<OpenedRow(AcmeFields, CID_ACME, 0, 0, <<97, 98, 99>>)>>,
    <<OpenedRow(AcmeFields, CID_ACME, 12, StartTime - 7, <<49, 50, 120>>)>>,
    <<OpenedRow(AcmeFields, CID_ACME \o <<32>>, 3, StartTime - 7, <<51>>)>>,
    TwoRowSheet }

\* a configured process and a well-formed document
GoodEnv ==
  [creds |-> "ok", sheetId |-> "ok", titles |-> {SHEET_NAME}, header |-> AllColumns]

\* the environments: the good one, and each way it can be wrong
Envs ==
  {GoodEnv,
   [GoodEnv EXCEPT !.creds = "missing"],
   [GoodEnv EXCEPT !.creds = "unparseable"],
   [GoodEnv EXCEPT !.sheetId = "missing"],
   [GoodEnv EXCEPT !.titles = {ToLowerCase(SHEET_NAME)}],
   [GoodEnv EXCEPT !.titles = {<<83, 104, 101, 101, 116, 49>>}]}
  \cup {[GoodEnv EXCEPT !.header = AllColumns \ {col}] : col \in RequiredColumns}

\* ------------------------------------------------------------------ state
VARIABLES
  clock,   \* the second of the wall clock at which requests arrive
  env,     \* process environment and document layout
  sheet,   \* the rows of the tracking sheet in the remote store
  req,     \* per request: the cid received and the response sent
  task     \* per request: the logOpenByCid task it launched

vars == <<clock, env, sheet, req, task>>

Requests == 1..MaxRequests

NoFields ==
  [company |-> Undefined, email |-> Undefined, subject |-> Undefined,
   type |-> Undefined, sentTime |-> Undefined]

NoRow == addedRow(NoFields, <<>>, <<>>)

\* a request that has not arrived.  path is the control path the handler
\* took, sends the number of res.send calls it made and launched the number
\* of logOpenByCid calls
NoRequest ==
  [state |-> "new", cid |-> Undefined, status |-> 0, ctype |-> "", body |-> "",
   path |-> "", sends |-> 0, launched |-> 0]

\* a task that was not launched.  pc is the await the task is suspended
\* at; reads and writes count the getRows calls that returned rows and the
\* save/addRow calls that were applied; attempts counts the doc.loadInfo
\* calls of the retry loop and slept is the time in ms the task has waited
\* since the last of them
NoTask ==
  [pc |-> "idle", outcome |-> "", cid |-> <<>>, now |-> <<>>, f |-> NoFields,
   retries |-> 0, attempts |-> 0, slept |-> 0,
   idx |-> 0, orig |-> NoRow, upd |-> NoRow, reads |-> 0, writes |-> 0]

\* the fixed body: the 1x1 GIF
PIXEL == "R0lGODlhAQABAIAAAAAAAP///ywAAAAAAQABAAACAUwAOw=="

pixelResponse == [status |-> 200, ctype |-> "image/gif", body |-> PIXEL]

\* openResponse without the catch (decodeErr) branch: the error reaches
\* the framework, which answers 500
openResponseUncaught(cid) ==
  IF ~Truthy(cid)
    THEN [status |-> 400, ctype |-> "text/html", body |-> "Missing cid"]
  ELSE IF DecodeThrows(cid)
    THEN [status |-> 500, ctype |-> "text/html", body |-> "Internal Server Error"]
  ELSE pixelResponse

\* what app.get('/open') sends for the query parameter cid
openResponse(cid) ==
  IF ~Truthy(cid)
    THEN [status |-> 400, ctype |-> "text/html", body |-> "Missing cid"]
  ELSE IF DecodeThrows(cid)
    THEN pixelResponse   \* catch (decodeErr)
  ELSE pixelResponse     \* after launching logOpenByCid

\* the control path of app.get('/open') for the query parameter cid, when
\* a statement between the cid check and the inner try throws or not
handlerPath(cid, throws) ==
  IF ~Truthy(cid) THEN "missing"
  ELSE IF throws THEN "unexpected"
  ELSE IF DecodeThrows(cid) THEN "decode_failure"
  ELSE "decoded"

\* sendsOnPath of a handler whose 400 branch does not return: it goes on
\* to decode the missing cid and sends the pixel as well
sendsOnPathNoReturn(path) == IF path = "missing" THEN 2 ELSE 1

\* the number of res.send calls on a control path: return res.status(400)
\* .send, res.send(pixel) of the inner try, of catch (decodeErr), of the
\* outer catch
sendsOnPath(path) ==
  CASE path = "missing" -> 1
    [] path = "decoded" -> 1
    [] path = "decode_failure" -> 1
    [] path = "unexpected" -> 1

\* the number of logOpenByCid calls on a control path
launchedOnPath(path) == IF path = "decoded" THEN 1 ELSE 0

\* whether app.get('/open') reaches the call of logOpenByCid
launchesTask(cid) == Truthy(cid) /\ ~DecodeThrows(cid)

\* the end of a task: its locals are gone, the counts of what it did stay
finish(t, outcome) ==
  [NoTask EXCEPT !.pc = "done", !.outcome = outcome, !.cid = t.cid,
                 !.reads = t.reads, !.writes = t.writes]

\* logOpenByCid(encodedCid) up to its first await, at wall-clock second now
startTask(encodedCid, e, now) ==
  LET t == [NoTask EXCEPT !.cid = encodedCid]
      f == parseFields(decodeBase64UrlSafe(encodedCid))
  IN  IF ~configOk(e) THEN finish(t, "config")
      ELSE IF isSelfOpen(f.email)
        THEN finish([t EXCEPT !.f = f, !.now = LocaleString(now)], "self")
      ELSE [t EXCEPT !.f = f, !.now = LocaleString(now), !.pc = "auth"]

\* onTaskError of a handler that reports the error of the task
onTaskErrorSurfaced(rq) ==
  [rq EXCEPT !.status = 500, !.ctype = "text/html", !.body = "Internal Server Error"]

\* what an error of the task does to the response of its request: the
\* catch of logOpenByCid and the .catch of the handler only log
onTaskError(rq) == rq

\* a retry loop that allows one attempt more
LoadRetriesOneMore == 3 + 1

\* number of doc.loadInfo attempts of the retry loop
LoadRetries == 3

\* delay in ms of the timer the retry loop awaits after a failed attempt
RetryDelayMs == 1000

Init ==
  /\ clock = StartTime
  /\ \/ env = GoodEnv /\ sheet \in InitSheets
     \/ env \in Envs /\ sheet = TwoRowSheet
  /\ req = [r \in Requests |-> NoRequest]
  /\ task = [r \in Requests |-> NoTask]

\* ---------------------------------------------------------------- actions
\* a second passes
Tick ==
  /\ clock < StartTime + MaxTicks
  /\ clock' = clock + 1
  /\ UNCHANGED <<env, sheet, req, task>>

\* GET /open arrives with query parameter cid; the handler runs to its end
\* (it awaits nothing): it launches the task, which runs to its first
\* await, and sends the response
HandleOpen(r, cid) ==
  /\ req[r].state = "new"
  /\ \A q \in Requests : q < r => req[q].state # "new"
  /\ req' = [req EXCEPT ![r] =
               [state |-> "responded", cid |-> cid,
                status |-> openResponse(cid).status,
                ctype |-> openResponse(cid).ctype,
                body |-> openResponse(cid).body,
                path |-> handlerPath(cid, FALSE),
                sends |-> sendsOnPath(handlerPath(cid, FALSE)),
                launched |-> launchedOnPath(handlerPath(cid, FALSE))]]
  /\ task' = IF launchesTask(cid)
               THEN [task EXCEPT ![r] = startTask(Trim(cid), env, clock)]
               ELSE task
  /\ UNCHANGED <<clock, env, sheet>>

\* GET /open arrives with a cid that is not missing, and a statement
\* before the inner try (console.log, res.set) throws: the outer catch
\* sends the pixel, and logOpenByCid is not called
HandleOpenThrows(r, cid) ==
  /\ req[r].state = "new"
  /\ \A q \in Requests : q < r => req[q].state # "new"
  /\ Truthy(cid)
  /\ req' = [req EXCEPT ![r] =
               [state |-> "responded", cid |-> cid,
                status |-> pixelResponse.status,
                ctype |-> pixelResponse.ctype,
                body |-> pixelResponse.body,
                path |-> handlerPath(cid, TRUE),
                sends |-> sendsOnPath(handlerPath(cid, TRUE)),
                launched |-> launchedOnPath(handlerPath(cid, TRUE))]]
  /\ UNCHANGED <<clock, env, sheet, task>>

\* a remote call of task r fails: the task ends in its catch block
Fails(r, outcome) ==
  /\ task' = [task EXCEPT ![r] = finish(@, outcome)]
  /\ req' = [req EXCEPT ![r] = onTaskError(@)]
  /\ UNCHANGED <<clock, env, sheet>>

\* await doc.useServiceAccountAuth(creds) of logOpenByCid
Auth(r) ==
  /\ task[r].pc = "auth"
  /\ \/ /\ task' = [task EXCEPT ![r] =
                      [@ EXCEPT !.pc = "load", !.retries = LoadRetries]]
        /\ UNCHANGED <<clock, env, sheet, req>>
     \/ Fails(r, "error")

\* one await doc.loadInfo() of the retry loop: it succeeds, the loop is
\* left (its locals are dead from here on) and the sheet is looked up; or it
\* fails, and the loop either throws the error or goes to wait
LoadInfo(r) ==
  /\ task[r].pc = "load"
  /\ \/ /\ task' = [task EXCEPT ![r] =
                      IF sheetFound(env)
                        THEN [@ EXCEPT !.pc = "header",
                                       !.retries = 0, !.attempts = 0, !.slept = 0]
                        ELSE finish(@, "no_sheet")]
        /\ UNCHANGED <<clock, env, sheet, req>>
     \/ /\ LET t == [task[r] EXCEPT !.attempts = @ + 1, !.slept = 0,
                                    !.retries = @ - 1]
           IN  IF t.retries = 0
                 THEN /\ task' = [task EXCEPT ![r] = finish(t, "error")]
                      /\ req' = [req EXCEPT ![r] = onTaskError(@)]
                 ELSE /\ task' = [task EXCEPT ![r] = [t EXCEPT !.pc = "delay"]]
                      /\ req' = req
        /\ UNCHANGED <<clock, env, sheet>>

\* await new Promise(resolve => setTimeout(resolve, 1000)): the timer
\* fires when its delay has passed
RetryTimer(r) ==
  /\ task[r].pc = "delay"
  /\ task' = [task EXCEPT ![r] = [@ EXCEPT !.pc = "load", !.slept = RetryDelayMs]]
  /\ UNCHANGED <<clock, env, sheet, req>>

\* await sheet.loadHeaderRow(), then the check of the required columns
LoadHeaderRow(r) ==
  /\ task[r].pc = "header"
  /\ \/ /\ task' = [task EXCEPT ![r] =
                      IF missingColumns(env) # {} THEN finish(@, "no_columns")
                      ELSE [@ EXCEPT !.pc = "rows"]]
        /\ UNCHANGED <<clock, env, sheet, req>>
     \/ Fails(r, "error")

\* the task after rows were read and row idx matched: updateOpenStats has
\* changed the row object, save is awaited
matched(t, rows, idx, pc) ==
  [t EXCEPT !.idx = idx, !.orig = rows[idx],
            !.upd = updateOpenStats(rows[idx], t.now), !.pc = pc]

\* await sheet.getRows(), the search for the CID, and either
\* updateOpenStats on the row found or the call of insertTrackingRow
GetRows(r) ==
  /\ task[r].pc = "rows"
  /\ \/ /\ task' = [task EXCEPT ![r] =
                      LET t   == [@ EXCEPT !.reads = @ + 1]
                          idx == findByCid(sheet, t.cid)
                      IN  IF idx # 0 THEN matched(t, sheet, idx, "save")
                          ELSE [t EXCEPT !.pc = "ins_auth"]]
        /\ UNCHANGED <<clock, env, sheet, req>>
     \/ Fails(r, "error")

\* a save that applies the open to the row as it is stored at that moment
SaveStored(r) ==
  /\ task[r].pc \in {"save", "save_new"}
  /\ \/ /\ sheet' = [sheet EXCEPT ![task[r].idx] = updateOpenStats(@, task[r].now)]
        /\ task' = [task EXCEPT ![r] =
                      finish([@ EXCEPT !.writes = @ + 1], "saved")]
        /\ UNCHANGED <<clock, env, req>>
     \/ Fails(r, "error")

\* await target.save() / await newTarget.save(): the row object replaces
\* the stored row of the same row number
Save(r) ==
  /\ task[r].pc \in {"save", "save_new"}
  /\ \/ /\ sheet' = [sheet EXCEPT ![task[r].idx] = task[r].upd]
        /\ task' = [task EXCEPT ![r] =
                      finish([@ EXCEPT !.writes = @ + 1], "saved")]
        /\ UNCHANGED <<clock, env, req>>
     \/ Fails(r, "error")

\* a remote call inside insertTrackingRow fails: its own catch logs, it
\* returns, and logOpenByCid goes on to read the rows again
InsertFails(r) ==
  /\ task' = [task EXCEPT ![r] = [@ EXCEPT !.pc = "rescan"]]
  /\ UNCHANGED <<clock, env, sheet, req>>

\* await doc.useServiceAccountAuth(creds) of insertTrackingRow
InsertAuth(r) ==
  /\ task[r].pc = "ins_auth"
  /\ \/ /\ task' = [task EXCEPT ![r] = [@ EXCEPT !.pc = "ins_load"]]
        /\ UNCHANGED <<clock, env, sheet, req>>
     \/ InsertFails(r)

\* await doc.loadInfo() of insertTrackingRow, its sheet lookup, and the
\* formatting of the sent time, which throws on an Invalid Date
InsertLoadInfo(r) ==
  /\ task[r].pc = "ins_load"
  /\ \/ /\ task' = [task EXCEPT ![r] =
                      [@ EXCEPT !.pc = IF sheetFound(env) /\ ~invalidDate(task[r].f.sentTime)
                                         THEN "ins_add" ELSE "rescan"]]
        /\ UNCHANGED <<clock, env, sheet, req>>
     \/ InsertFails(r)

\* await sheet.addRow({...}) of insertTrackingRow
AddRow(r) ==
  /\ task[r].pc = "ins_add"
  /\ \/ /\ sheet' = Append(sheet,
                      addedRow(task[r].f, sentTimeStr(task[r].f.sentTime), task[r].cid))
        /\ task' = [task EXCEPT ![r] =
                      [@ EXCEPT !.pc = "rescan", !.writes = @ + 1]]
        /\ UNCHANGED <<clock, env, req>>
     \/ InsertFails(r)

\* const updatedRows = await sheet.getRows() and the second search
Rescan(r) ==
  /\ task[r].pc = "rescan"
  /\ \/ /\ task' = [task EXCEPT ![r] =
                      LET t   == [@ EXCEPT !.reads = @ + 1]
                          idx == findByCid(sheet, t.cid)
                      IN  IF idx # 0 THEN matched(t, sheet, idx, "save_new")
                          ELSE finish(t, "not_created")]
        /\ UNCHANGED <<clock, env, sheet, req>>
     \/ Fails(r, "error")

Next ==
  \/ Tick
  \/ \E r \in Requests, cid \in CidInputs : HandleOpen(r, cid)
  \/ \E r \in Requests, cid \in CidInputs : HandleOpenThrows(r, cid)
  \/ \E r \in Requests : Auth(r)
  \/ \E r \in Requests : LoadInfo(r)
  \/ \E r \in Requests : RetryTimer(r)
  \/ \E r \in Requests : LoadHeaderRow(r)
  \/ \E r \in Requests : GetRows(r)
  \/ \E r \in Requests : Save(r)
  \/ \E r \in Requests : InsertAuth(r)
  \/ \E r \in Requests : InsertLoadInfo(r)
  \/ \E r \in Requests : AddRow(r)
  \/ \E r \in Requests : Rescan(r)

Spec == Init /\ [][Next]_vars

\* a behaviour that starts from the configured process and the two-row
\* sheet, and in which every doc.loadInfo call of the retry loop returns or
\* fails in the end and every timer of the loop fires (a call that hangs
\* for ever is outside this specification)
LiveInit == Init /\ env = GoodEnv /\ sheet = TwoRowSheet

LiveSpec ==
  /\ LiveInit /\ [][Next]_vars
  /\ \A r \in Requests : WF_vars(LoadInfo(r)) /\ WF_vars(RetryTimer(r))

\* ------------------------------------------------------------ the encoder
\* The identifiers are encoded by the mail sender, whose code is not part
\* of these sources: web-safe base64 (RFC 4648, section 5) of the bytes of
\* the string, with or without the trailing '='.
\* the character of a sextet in the web-safe alphabet
Base64WebSafeChar(v) ==
  IF v < 26 THEN 65 + v
  ELSE IF v < 52 THEN 97 + (v - 26)
  ELSE IF v < 62 THEN 48 + (v - 52)
  ELSE IF v = 62 THEN 45
  ELSE 95

\* web-safe base64 of a string of ASCII characters, padded with '='
encodeBase64WebSafe(x) ==
  LET n       == Len(x)
      byte(k) == IF k <= n THEN x[k] ELSE 0
      char(j) ==
        LET g  == (j - 1) \div 4
            p  == (j - 1) % 4
            b1 == byte(3 * g + 1)
            b2 == byte(3 * g + 2)
            b3 == byte(3 * g + 3)
        IN  IF p = 0 THEN Base64WebSafeChar(b1 \div 4)
            ELSE IF p = 1 THEN Base64WebSafeChar((b1 % 4) * 16 + b2 \div 16)
            ELSE IF p = 2
              THEN IF 3 * g + 2 > n THEN 61
                   ELSE Base64WebSafeChar((b2 % 16) * 4 + b3 \div 64)
            ELSE IF 3 * g + 3 > n THEN 61
                 ELSE Base64WebSafeChar(b3 % 64)
  IN  [j \in 1..(4 * ((n + 2) \div 3)) |-> char(j)]

\* the encoding as the sender puts it into the link: with its padding, or
\* with the padding stripped
encoded(x, padded) ==
  IF padded THEN encodeBase64WebSafe(x) ELSE UpToPad(encodeBase64WebSafe(x))

\* fields joined by the delimiter
RECURSIVE Join(_, _)
Join(fields, sep) ==
  IF Len(fields) = 1 THEN fields[1]
  ELSE fields[1] \o sep \o Join(Tail(fields), sep)

\* company names "Acme", "Ac", "~~~" and "???a" (the last two give the
\* sextets 62 and 63), addresses "a@b.com" and "x@y.io"
Companies ==
  {<<65, 99, 109, 101>>, <<65, 99>>, <<126, 126, 126>>, <<63, 63, 63, 97>>}

Addresses == {<<97, 64, 98, 46, 99, 111, 109>>, <<120, 64, 121, 46, 105, 111>>}

\* the well-formed identifiers: five fields joined by '|' or by '||'
IdentifierFields ==
  {<<c, e, AcmeFields.subject, AcmeFields.type, AcmeFields.sentTime>> :
     c \in Companies, e \in Addresses}

Identifiers ==
  {Join(fs, sep) : fs \in IdentifierFields, sep \in {<<124>>, <<124, 124>>}}

\* GET /open arrives with the encoding of identifier x
OpenEncoded(r, x, padded) == HandleOpen(r, encoded(x, padded))

\* decoded strings that are no five-field identifiers: "A|B||C" (both
\* delimiters), "Acme|a@b.com" (two fields), "abc" (no delimiter) and
\* "a|b|c|d|e|f" (six fields)
OddStrings ==
  { <<65, 124, 66, 124, 124, 67>>,
    <<65, 99, 109, 101, 124, 97, 64, 98, 46, 99, 111, 109>>,
    <<97, 98, 99>>,
    <<97, 124, 98, 124, 99, 124, 100, 124, 101, 124, 102>> }

\* GET /open arrives with the encoding of string d, bare or with white
\* space around it
OpenOdd(r, d, spaced) ==
  HandleOpen(r, IF spaced THEN <<32>> \o encodeBase64WebSafe(d) \o <<32, 10>>
                ELSE encodeBase64WebSafe(d))

CodecNext ==
  \/ \E r \in Requests, x \in Identifiers, padded \in BOOLEAN : OpenEncoded(r, x, padded)
  \/ \E r \in Requests, d \in OddStrings, spaced \in BOOLEAN : OpenOdd(r, d, spaced)

\* requests that carry encoded identifiers arrive at a configured process
CodecSpec == LiveInit /\ [][CodecNext]_vars

\* ------------------------------------------------- one row, opens in turn
\* number of opens applied to the row, one after the other
MaxOpens == 13

\* insertTrackingRow run to its end on the empty sheet
InsertRow ==
  /\ sheet = <<>>
  /\ sheet' = <<addedRow(AcmeFields, sentTimeStr(AcmeFields.sentTime), CID_ACME)>>
  /\ UNCHANGED <<clock, env, req, task>>

\* logOpenByCid(CID_ACME) run from its start to the end of target.save()
\* with no other task in between: the row is found, updateOpenStats is
\* applied with the wall-clock time, and the row object is saved
OpenInTurn ==
  LET idx == findByCid(sheet, CID_ACME)
  IN  /\ idx # 0
      /\ priorOpens(sheet[idx].totalOpens) < MaxOpens
      /\ sheet' = [sheet EXCEPT ![idx] = updateOpenStats(@, LocaleString(clock))]
      /\ UNCHANGED <<clock, env, req, task>>

RowInit == Init /\ env = GoodEnv /\ sheet = <<>>

RowNext == Tick \/ InsertRow \/ OpenInTurn

\* a row is inserted and then changed by opens that are applied in turn
RowSpec == RowInit /\ [][RowNext]_vars

\* ----------------------------------------------------------------- claims
Responded(r) == req[r].state = "responded"

GotPixel(r) ==
  req[r].status = 200 /\ req[r].body = PIXEL /\ req[r].ctype = "image/gif"

Saving(r) == task[r].pc \in {"save", "save_new"}

InInsert(r) == task[r].pc \in {"ins_auth", "ins_load", "ins_add"}

\* the second a LocaleString value renders
SecondOf(stamp) == stamp[2]

Abs(n) == IF n < 0 THEN 0 - n ELSE n

\* the open task r applies falls less than 5000 ms from the Last Seen Time
\* of the row it matched
InDedupWindow(r) ==
  /\ task[r].orig.lastSeen # <<>>
  /\ Abs(SecondOf(task[r].now) - SecondOf(task[r].orig.lastSeen)) * 1000 < 5000

\* C1: every answered GET /open has status 400 when cid is absent or empty,
\* and otherwise status 200 with the fixed GIF body and Content-Type
\* image/gif, in every state, whatever became of decoding and of the task
C1_OpenResponse ==
  \A r \in Requests :
    Responded(r) =>
      IF req[r].cid = Undefined \/ req[r].cid = <<>>
        THEN req[r].status = 400
        ELSE GotPixel(r)

\* C1 witness: a request whose cid made the decoder throw and a request
\* whose task ended in an error have both been answered
C1_Witness ==
  /\ \E r \in Requests : Responded(r) /\ req[r].cid = ArrayValue /\ task[r].pc = "idle"
  /\ \E r \in Requests : Responded(r) /\ task[r].pc = "done" /\ task[r].outcome = "error"

\* C2: a launched task is never ahead of the response (the pixel has been
\* sent by the time the task waits for its first remote call), and no step
\* of any task changes a response that was sent
C2_ResponseDecoupled ==
  /\ [](\A r \in Requests : task[r].pc # "idle" => Responded(r) /\ GotPixel(r))
  /\ [][\A r \in Requests : Responded(r) => req'[r] = req[r]]_vars

\* C2 witness: one task still waits for its first remote call and another
\* has ended in an error, and both requests hold the pixel
C2_Witness ==
  /\ \E r \in Requests : task[r].pc = "auth" /\ GotPixel(r)
  /\ \E r \in Requests : task[r].pc = "done" /\ task[r].outcome = "error" /\ GotPixel(r)

\* C3: an open observed less than 5000 ms from the non-empty Last Seen Time
\* of the matched row leaves the row unmodified
C3_DedupWindow ==
  \A r \in Requests :
    Saving(r) /\ InDedupWindow(r) => task[r].upd = task[r].orig

\* the value the claim gives a Total Opens cell: its number when it is a
\* run of digits, 0 when it is missing or not a number
CellNumber(cell) ==
  IF cell # <<>> /\ \A i \in 1..Len(cell) : IsDigit(cell[i]) THEN DigitsValue(cell, 0)
  ELSE 0

\* the number a Total Opens cell starts with: the value of its longest
\* leading run of digits, 0 when it starts with none
LeadingNumber(cell) ==
  LET n == CHOOSE m \in 0..Len(cell) :
             /\ \A i \in 1..m : IsDigit(cell[i])
             /\ m < Len(cell) => ~IsDigit(cell[m + 1])
  IN  CellNumber(SubSeq(cell, 1, n))

\* the slot the claim names: the lowest empty one, Seen 10 when none is
TargetSlot(seen) ==
  IF \E i \in 1..10 : seen[i] = <<>>
    THEN CHOOSE i \in 1..10 : seen[i] = <<>> /\ \A j \in 1..(i - 1) : seen[j] # <<>>
    ELSE 10

\* the open of task r obeys the Seen-slot and Last Seen Time part of C4
SeenApplied(r) ==
  LET o == task[r].orig
      u == task[r].upd
      k == TargetSlot(o.seen)
  IN  /\ u.lastSeen = task[r].now
      /\ u.seen[k] = task[r].now
      /\ \A j \in 1..10 : j # k => u.seen[j] = o.seen[j]

C5_SelfOpenSuppressed ==
  /\ \A r \in Requests :
       req[r].cid = CID_SELF =>
         task[r].pc \in {"idle", "done"} /\ task[r].reads = 0 /\ task[r].writes = 0
  /\ \A i \in 1..Len(sheet) :
       sheet[i].cid = CID_SELF => sheet[i] = OpenedRow(SelfFields, CID_SELF, 0, 0, <<48>>)

\* C5 witness: such a request was handled by a configured process while a
\* row with its CID exists
C5_Witness ==
  \E r \in Requests :
    /\ req[r].cid = CID_SELF /\ task[r].pc = "done" /\ configOk(env)
    /\ \E i \in 1..Len(sheet) : sheet[i].cid = CID_SELF

\* row and identifier agree on company, email, subject and type
SameIdentity(row, f) ==
  /\ row.company = f.company /\ row.email = f.email
  /\ row.subject = f.subject /\ row.type = f.type

\* C6: a task whose CID matches no row, while a row agrees with its decoded
\* company, email, subject and type, takes that row and inserts nothing
\* (stated while no task has written, so that the rows are those it read)
C6_FallbackMatch ==
  \A r \in Requests :
    /\ InInsert(r)
    /\ \A q \in Requests : task[q].writes = 0
    => ~\E i \in 1..Len(sheet) : SameIdentity(sheet[i], task[r].f)

\* C7: no two rows of the sheet carry the same CID
C7_UniqueCid ==
  \A i, j \in 1..Len(sheet) : i # j => Trim(sheet[i].cid) # Trim(sheet[j].cid)

\* task r makes a doc.loadInfo attempt of the retry loop in this step
LoadAttempt(r) == task[r].pc = "load" /\ task'[r].pc # "load"

InRetryLoop(r) == task[r].pc \in {"load", "delay"}

\* C8: the retry loop makes at most 3 attempts, each attempt after the
\* first follows a wait of at least 1000 ms, an attempt is only made while
\* every earlier one failed, the loop is not entered again once left, a
\* failed third attempt ends the task in its error handler with nothing
\* read or written, and a task in the loop leaves it
C8_LoadRetry ==
  /\ [](\A r \in Requests : task[r].attempts <= 3)
  /\ [][\A r \in Requests :
          /\ LoadAttempt(r) =>
               /\ task[r].attempts < 3
               /\ task[r].attempts > 0 => task[r].slept >= 1000
               /\ task'[r].pc = "delay" => task'[r].attempts = task[r].attempts + 1
               /\ task[r].attempts = 2 /\ task'[r].pc # "header" =>
                    /\ task'[r].pc = "done"
                    /\ task'[r].reads = 0 /\ task'[r].writes = 0
                    /\ sheet' = sheet
          /\ task[r].pc \notin {"idle", "auth", "load", "delay"} => ~InRetryLoop(r)'
       ]_vars
  /\ \A r \in Requests : InRetryLoop(r) ~> ~InRetryLoop(r)

\* C8 witness: a task whose three attempts failed has ended with nothing
\* read or written; the other is in the loop after two failures and a wait
C8_Witness ==
  /\ \E r \in Requests :
       task[r].pc = "load" /\ task[r].attempts = 2 /\ task[r].slept = 1000
  /\ \E r \in Requests :
       /\ task[r].pc = "done" /\ task[r].outcome = "error" /\ req[r].cid = CID_ACME
       /\ task[r].reads = 0 /\ task[r].writes = 0

\* C9: a request with a malformed cid (wrong padding, or a decoded string
\* that holds no delimiter) is answered with the pixel and its update
\* pipeline writes nothing
C9_MalformedNotTracked ==
  \A r \in Requests :
    req[r].cid \in {CID_BADPAD, CID_PLAIN} => GotPixel(r) /\ task[r].writes = 0

\* the environment makes the task abort before matching
AbortsBeforeMatching ==
  \/ env.creds # "ok"
  \/ env.sheetId # "ok"
  \/ \A title \in env.titles : ToLowerCase(title) # ToLowerCase(SHEET_NAME)
  \/ \E col \in {"CID", "Total Opens", "Last Seen Time"} : col \notin env.header

\* C10: when credentials or document id are missing or unparseable, no
\* sheet has the title (exactly or ignoring case) or a required column is
\* absent, no task saves or adds a row and the sheet stays as it was
C10_AbortNoWrite ==
  AbortsBeforeMatching =>
    /\ \A r \in Requests : task[r].writes = 0 /\ ~Saving(r) /\ ~InInsert(r)
    /\ sheet = TwoRowSheet

\* C10 witness: with the Total Opens column absent a task has got as far as
\* the header check and ended there
C10_Witness ==
  /\ "Total Opens" \notin env.header
  /\ \E r \in Requests : task[r].pc = "done" /\ task[r].outcome = "no_columns"

\* the encodings of the identifiers, each with the identifier it encodes
EncodedIdentifiers ==
  {<<encoded(x, padded), x>> : x \in Identifiers, padded \in BOOLEAN}

\* C11: the cid of every request that carries the web-safe base64 encoding
\* of a well-formed identifier x, padded or not, decodes to exactly x
C11_RoundTrip ==
  \A r \in Requests : \A e \in EncodedIdentifiers :
    Responded(r) /\ req[r].cid = e[1] =>
      /\ decodeBase64UrlSafe(req[r].cid) = e[2]
      /\ task[r].pc = "auth" /\ task[r].f = parseFields(e[2])

\* C11 witness: an identifier whose encoding holds '-' and lost its padding
\* and one whose encoding holds '_' and kept it have both been decoded
C11_Witness ==
  /\ \E r \in Requests :
       /\ Responded(r) /\ Includes(req[r].cid, <<45>>) /\ Len(req[r].cid) % 4 # 0
       /\ decodeBase64UrlSafe(req[r].cid) \in Identifiers
  /\ \E r \in Requests :
       /\ Responded(r) /\ Includes(req[r].cid, <<95>>) /\ Includes(req[r].cid, <<61>>)
       /\ decodeBase64UrlSafe(req[r].cid) \in Identifiers

\* the rows of the sheet that carry the CID of task r
RowsOfCid(r) == {i \in 1..Len(sheet) : Trim(sheet[i].cid) = task[r].cid}

\* counters 0 and all timestamps empty
FreshCounters(row) ==
  /\ row.totalOpens = <<48>> /\ row.lastSeen = <<>>
  /\ \A i \in 1..10 : row.seen[i] = <<>>
  /\ row.pdfViews = <<48>> /\ row.lastPdfView = <<>>
  /\ row.calClicks = <<48>> /\ row.lastCalClick = <<>>
  /\ row.webClicks = <<48>> /\ row.lastWebClick = <<>>
  /\ row.portfolioClicks = <<48>> /\ row.lastPortfolio = <<>>

\* Total Opens 1, Last Seen Time and Seen 1 the time `stamp`, Seen 2..10 empty
OpenedOnce(row, stamp) ==
  /\ row.totalOpens = <<49>>
  /\ row.lastSeen = stamp /\ row.seen[1] = stamp /\ stamp # <<>>
  /\ \A i \in 2..10 : row.seen[i] = <<>>

\* task r took the path of an unmatched identifier (it read the rows and
\* found no row of its CID), and is where the claim puts it
InsertPath(r) ==
  LET t == task[r]
  IN  /\ InInsert(r) => t.reads = 1 /\ t.writes = 0
      /\ t.pc = "rescan" =>
           /\ t.reads = 1 /\ t.writes \in {0, 1}
           /\ t.writes = 1 =>
                \E i \in 1..Len(sheet) :
                  RowsOfCid(r) = {i} /\ FreshCounters(sheet[i])
           /\ t.writes = 0 => RowsOfCid(r) = {}
      /\ t.pc = "save_new" =>
           /\ t.reads = 2 /\ t.writes = 1
           /\ RowsOfCid(r) = {t.idx} /\ FreshCounters(sheet[t.idx])
           /\ OpenedOnce(t.upd, t.now)
      /\ t.pc = "done" /\ t.outcome = "saved" /\ t.reads = 2 =>
           /\ t.writes = 2
           /\ \E i \in 1..Len(sheet) :
                RowsOfCid(r) = {i} /\ OpenedOnce(sheet[i], sheet[i].lastSeen)
      /\ t.pc = "done" /\ t.outcome = "not_created" =>
           t.reads = 2 /\ t.writes = 0 /\ RowsOfCid(r) = {}

\* no other request carries the CID of task r
Alone(r) == \A q \in Requests \ {r} : task[q].cid # task[r].cid

\* C12: a task that finds no row of its CID, while no other task for the
\* same CID is launched, inserts one row with counters 0 and timestamps
\* empty, reads the rows once more, and either saves the open on that row
\* (Total Opens 1, Last Seen Time and Seen 1 the observed time, Seen 2..10
\* empty) or, when the insert failed, ends with no row written
C12_InsertThenRescanAlone == \A r \in Requests : Alone(r) => InsertPath(r)

\* C12 as the specification states it: for every task, whatever other
\* tasks do
C12_InsertThenRescan == \A r \in Requests : InsertPath(r)

\* C12 witness: one task has inserted a row and saved its open on it, and
\* the task of another CID, whose insert failed, has ended without a write
C12_Witness ==
  /\ \E r \in Requests :
       /\ Alone(r) /\ task[r].pc = "done" /\ task[r].outcome = "saved"
       /\ task[r].reads = 2 /\ task[r].writes = 2
  /\ \E r \in Requests :
       Alone(r) /\ task[r].pc = "done" /\ task[r].outcome = "not_created"

\* tasks r and q of one CID, observed within 5000 ms of each other, have
\* both read the same stored row and neither has written
BothPassed(r, q) ==
  /\ r # q /\ task[r].pc = "save" /\ task[q].pc = "save"
  /\ task[r].cid = task[q].cid
  /\ task[r].idx = task[q].idx /\ task[r].orig = task[q].orig
  /\ sheet[task[r].idx] = task[r].orig
  /\ Abs(SecondOf(task[r].now) - SecondOf(task[q].now)) * 1000 < 5000

\* the Total Opens cell that is n more than that of row o
TotalPlus(o, n) == NumberToString(LeadingNumber(o.totalOpens) + n)

C14_FirstMatchOnly ==
  /\ [](\A r \in Requests :
          Saving(r) =>
            /\ task[r].idx \in RowsOfCid(r)
            /\ \A i \in RowsOfCid(r) : task[r].idx <= i)
  /\ [][\A r \in Requests :
          Saving(r) /\ task'[r] # task[r] =>
            /\ task'[r].pc = "done"
            /\ Len(sheet') = Len(sheet)
            /\ \A i \in 1..Len(sheet) : i # task[r].idx => sheet'[i] = sheet[i]]_vars

\* C14 witness: two rows carry one CID, a task of that CID has saved its
\* open, the first of the rows holds it and the second is as it was added
C14_Witness ==
  \E r \in Requests : \E i, j \in RowsOfCid(r) :
    /\ i < j /\ task[r].pc = "done" /\ task[r].outcome = "saved"
    /\ sheet[i].totalOpens # <<48>> /\ FreshCounters(sheet[j])

\* rows a and b agree on every column the open path has no business with
SameOutsideOpens(a, b) ==
  /\ a.cid = b.cid /\ a.company = b.company /\ a.email = b.email
  /\ a.subject = b.subject /\ a.type = b.type /\ a.sentTime = b.sentTime
  /\ a.pdfViews = b.pdfViews /\ a.lastPdfView = b.lastPdfView
  /\ a.calClicks = b.calClicks /\ a.lastCalClick = b.lastCalClick
  /\ a.webClicks = b.webClicks /\ a.lastWebClick = b.lastWebClick
  /\ a.portfolioClicks = b.portfolioClicks /\ a.lastPortfolio = b.lastPortfolio

\* C15: the row object a task is about to save differs from the row it
\* read in Total Opens, Last Seen Time and the Seen slots only, and no step
\* changes, in any stored row, the CID, Company Name, Email ID, Subject,
\* Email Type, Sent Time or a PDF, calendar, web or portfolio column
C15_OpenKeepsOtherColumns ==
  /\ [](\A r \in Requests : Saving(r) => SameOutsideOpens(task[r].upd, task[r].orig))
  /\ [][\A i \in 1..Len(sheet) :
          i <= Len(sheet') /\ SameOutsideOpens(sheet'[i], sheet[i])]_vars

\* C15 witness: a row created by an insert has had an open saved on it and
\* holds the columns it was created with
C15_Witness ==
  \E r \in Requests : \E i \in RowsOfCid(r) :
    /\ task[r].pc = "done" /\ task[r].outcome = "saved" /\ task[r].writes = 2
    /\ sheet[i].totalOpens = <<49>>
    /\ SameOutsideOpens(sheet[i], addedRow(AcmeFields, ISOString(170000), task[r].cid))

\* the fields the claim gives a decoded string, case by case
fieldsOf(c, e, s, t, st) ==
  [company |-> c, email |-> e, subject |-> s, type |-> t, sentTime |-> st]

ExpectedFields ==
  { <<Join(fs, sep), fieldsOf(fs[1], fs[2], fs[3], fs[4], fs[5])>> :
      fs \in IdentifierFields, sep \in {<<124>>, <<124, 124>>} }
  \cup
  { <<<<65, 124, 66, 124, 124, 67>>,
      fieldsOf(<<65, 124, 66>>, <<67>>, Undefined, Undefined, Undefined)>>,
    <<<<65, 99, 109, 101, 124, 97, 64, 98, 46, 99, 111, 109>>,
      fieldsOf(AcmeFields.company, AcmeFields.email, Undefined, Undefined, Undefined)>>,
    <<<<97, 98, 99>>,
      fieldsOf(<<97, 98, 99>>, Undefined, Undefined, Undefined, Undefined)>>,
    <<<<97, 124, 98, 124, 99, 124, 100, 124, 101, 124, 102>>,
      fieldsOf(<<97>>, <<98>>, <<99>>, <<100>>, <<101>>)>> }

\* C16: the fields the task of a request holds are those the claim gives
\* the decoded string ('||' wins wherever it occurs, pieces are assigned in
\* order, missing ones are undefined, a sixth is dropped), and they are the
\* fields the handler parses from the cid as it was received
C16_ParseFields ==
  \A r \in Requests :
    task[r].pc = "auth" =>
      LET decoded == decodeBase64UrlSafe(req[r].cid)
      IN  /\ \E c \in ExpectedFields : c[1] = decoded /\ task[r].f = c[2]
          /\ task[r].f = parseFields(decoded)

\* C16 witness: "Acme|a@b.com|Subj|Promo|170000" was parsed to its five
\* fields, and "A|B||C", received with white space around its encoding, to
\* company "A|B" and email "C"
C16_Witness ==
  /\ \E r \in Requests :
       /\ decodeBase64UrlSafe(req[r].cid) = Join(<<AcmeFields.company, AcmeFields.email,
              AcmeFields.subject, AcmeFields.type, AcmeFields.sentTime>>, <<124>>)
       /\ task[r].f = AcmeFields
  /\ \E r \in Requests :
       /\ req[r].cid # Trim(req[r].cid)
       /\ task[r].f.company = <<65, 124, 66>> /\ task[r].f.email = <<67>>
       /\ task[r].f.subject = Undefined

\* the number of slots, in front, that the claim says are filled
FilledSlots(row) ==
  IF LeadingNumber(row.totalOpens) < 10 THEN LeadingNumber(row.totalOpens) ELSE 10

\* C17: in every row the Seen slots that are not empty are Seen 1..Seen k
\* with k = min(Total Opens, 10), Last Seen Time is the value of Seen k when
\* Total Opens >= 1, and no step changes one of Seen 1..Seen 9 that is not
\* empty
C17_SeenPrefix ==
  /\ [](\A i \in 1..Len(sheet) :
          LET row == sheet[i]
              k   == FilledSlots(row)
          IN  /\ \A j \in 1..10 : (row.seen[j] # <<>>) <=> (j <= k)
              /\ k >= 1 => row.lastSeen = row.seen[k])
  /\ [][\A i \in 1..Len(sheet) : \A j \in 1..9 :
          sheet[i].seen[j] # <<>> => sheet'[i].seen[j] = sheet[i].seen[j]]_vars

\* C17 witness: the row has been opened 12 times, the last time a second
\* after the others; Seen 10 holds the last time and Seen 9 the earlier one
C17_Witness ==
  /\ Len(sheet) = 1
  /\ sheet[1].totalOpens = <<49, 50>>
  /\ sheet[1].seen[10] = LocaleString(StartTime + 1)
  /\ sheet[1].seen[9] = LocaleString(StartTime)
  /\ sheet[1].lastSeen = LocaleString(StartTime + 1)

\* C18: every save of a task that found an existing row raises the stored
\* Total Opens by exactly 1 and keeps every stored Seen 1..Seen 9 that is
\* not empty
C18_NoLostUpdate ==
  [][\A r \in Requests :
       task[r].pc = "save" /\ task'[r].outcome = "saved" =>
         LET stored == sheet[task[r].idx]
             after  == sheet'[task[r].idx]
         IN  /\ after.totalOpens = TotalPlus(stored, 1)
             /\ \A j \in 1..9 : stored.seen[j] # <<>> => after.seen[j] = stored.seen[j]]_vars

====
